---- MODULE Spec2Model ----
(***************************************************************************)
(* Model of backend/main.py of the TailorTalk calendar agent:              *)
(*   - the /chat handler chat_with_agent with its process-wide table       *)
(*     chat_histories of ConversationBufferMemory objects (SpecChat);      *)
(*   - the two calendar tools check_calendar_availability and              *)
(*     book_appointment over the calendar gateway (SpecTools).             *)
(* The reasoning engine (agent_executor.invoke) and the calendar backend   *)
(* are external: the engine returns any output or raises, the backend      *)
(* answers a call or fails it.                                             *)
(***************************************************************************)
EXTENDS Integers, Sequences, FiniteSets, TLC

\* ------------------------------------------------------------------ bounds
MaxRequests == 3
MaxDay == 1
MaxTick == 2
TicksPerHour == 2
MaxEvents == 3

\* ------------------------------------------------------- chat: the state
VARIABLES
    clock,           \* the current calendar date (datetime.now())
    today,           \* module-level `today`, bound into the prompt
    chat_histories,  \* session id -> memory object (0: key absent)
    heap,            \* memory object -> its chat_memory.messages
    req,             \* request -> its handler's frame
    prompt,          \* the prompt last rendered for the engine
    completed,       \* requests whose handler returned, in order
    calendar,        \* the calendar backend's events
    last             \* the last tool invocation

chatVars == <<clock, today, chat_histories, heap, req, prompt, completed>>
toolVars == <<calendar, last>>
vars == <<clock, today, chat_histories, heap, req, prompt, completed, calendar, last>>

\* ------------------------------------------------- tools: strings, times
\* A Python str is a sequence of tokens: a blank, a word or punctuation
\* mark, an ISO-8601 date-time ("2025-01-01T10:00:00+05:30") or an ISO-8601
\* date ("2025-01-01"). Time is counted in ticks, TicksPerHour to the hour.
Tok(k, t, tz, w) == [k |-> k, t |-> t, tz |-> tz, w |-> w]
Ws == Tok("ws", 0, "", " ")
Word(w) == Tok("word", 0, "", w)
Iso(t, tz) == Tok("iso", t, tz, "")
Date(t) == Tok("date", t, "", "")
Q1 == Word("'")
Q2 == Word("\"")

Words(ws) == [i \in 1..Len(ws) |-> Word(ws[i])]

\* str.strip()
RECURSIVE lstrip(_)
lstrip(s) == IF s # <<>> /\ Head(s) = Ws THEN lstrip(Tail(s)) ELSE s

RECURSIVE rstrip(_)
rstrip(s) == IF s # <<>> /\ s[Len(s)] = Ws THEN rstrip(SubSeq(s, 1, Len(s) - 1)) ELSE s

strip(s) == rstrip(lstrip(s))

\* str.replace(old, new) for one-token old and new
replace(s, old, new) == [i \in 1..Len(s) |-> IF s[i] = old THEN new ELSE s[i]]

\* The outcome of an expression: a value, or the exception it raises.
Ok(v) == [ok |-> TRUE, v |-> v, exc |-> ""]
Raise(e) == [ok |-> FALSE, v |-> <<>>, exc |-> e]

\* datetime.fromisoformat: a date-time is taken with its offset (none: naive),
\* a bare date as that day's midnight, naive; anything else is a ValueError.
fromisoformat(s) ==
    IF Len(s) = 1 /\ s[1].k = "iso" THEN Ok([t |-> s[1].t, tz |-> s[1].tz])
    ELSE IF Len(s) = 1 /\ s[1].k = "date" THEN Ok([t |-> s[1].t, tz |-> ""])
    ELSE Raise("ValueError")

\* datetime.isoformat()
isoformat(dt) == <<Iso(dt.t, dt.tz)>>

\* datetime.strftime: the formatted instant, one word
strftime(dt) == <<Word(ToString(dt.t))>>

\* start_dt + timedelta(hours=1) (variant: hours=2)
PlusTwoHours(dt) == [dt EXCEPT !.t = @ + 2 * TicksPerHour]
PlusOneHour(dt) == [dt EXCEPT !.t = @ + TicksPerHour]

\* ', '.join(parts)
RECURSIVE join(_)
join(parts) ==
    IF parts = <<>> THEN <<>>
    ELSE IF Len(parts) = 1 THEN parts[1]
    ELSE parts[1] \o <<Word(","), Ws>> \o join(Tail(parts))

\* ------------------------------------------------------- tools: json.loads
\* The object grammar json.loads accepts, on tokens: { "key": value, ... }
\* with blanks between the marks; a value is a string in double quotes or a
\* bare word (a number). Everything else is a JSONDecodeError.
RECURSIVE SkipWs(_, _)
SkipWs(s, i) == IF i <= Len(s) /\ s[i] = Ws THEN SkipWs(s, i + 1) ELSE i

At(s, i, tok) == i <= Len(s) /\ s[i] = tok

RECURSIVE CloseQuote(_, _)
CloseQuote(s, i) ==
    IF i > Len(s) THEN 0 ELSE IF s[i] = Q2 THEN i ELSE CloseQuote(s, i + 1)

\* A string literal starting at i: its content and the place after it.
ParseString(s, i) ==
    IF ~At(s, i, Q2) THEN [ok |-> FALSE, v |-> <<>>, next |-> i]
    ELSE LET j == CloseQuote(s, i + 1)
         IN  IF j = 0 THEN [ok |-> FALSE, v |-> <<>>, next |-> i]
             ELSE [ok |-> TRUE, v |-> SubSeq(s, i + 1, j - 1), next |-> j + 1]

Structural == {Word("{"), Word("}"), Word(":"), Word(","), Q1, Q2, Ws}

ParseValue(s, i) ==
    IF At(s, i, Q2)
    THEN LET p == ParseString(s, i)
         IN  [ok |-> p.ok, v |-> [type |-> "str", s |-> p.v], next |-> p.next]
    ELSE IF i <= Len(s) /\ s[i].k = "word" /\ s[i] \notin Structural
    THEN [ok |-> TRUE, v |-> [type |-> "num", s |-> <<s[i]>>], next |-> i + 1]
    ELSE [ok |-> FALSE, v |-> [type |-> "num", s |-> <<>>], next |-> i]

\* The members from place i on, added to dict d (a later key wins).
RECURSIVE ParseMembers(_, _, _)
ParseMembers(s, i, d) ==
    LET k == ParseString(s, SkipWs(s, i))
        c == SkipWs(s, k.next)
        v == ParseValue(s, SkipWs(s, c + 1))
        e == SkipWs(s, v.next)
        d2 == [x \in DOMAIN d \cup {k.v} |-> IF x = k.v THEN v.v ELSE d[x]]
    IN  IF ~k.ok \/ ~At(s, c, Word(":")) \/ ~v.ok THEN Raise("JSONDecodeError")
        ELSE IF At(s, e, Word(",")) THEN ParseMembers(s, e + 1, d2)
        ELSE IF At(s, e, Word("}")) /\ SkipWs(s, e + 1) > Len(s) THEN Ok(d2)
        ELSE Raise("JSONDecodeError")

json_loads(s) ==
    LET b == SkipWs(s, 1)
        m == SkipWs(s, b + 1)
    IN  IF ~At(s, b, Word("{")) THEN Raise("JSONDecodeError")
        ELSE IF At(s, m, Word("}"))
        THEN IF SkipWs(s, m + 1) > Len(s) THEN Ok(<<>>) ELSE Raise("JSONDecodeError")
        ELSE ParseMembers(s, m, <<>>)

\* --------------------------------------------------- tools: the gateway
\* The calendar backend holds events in the order it created them; an
\* event's id is its place. An event made by another client may have any
\* length and may lack the 'summary' key (an untitled event).
Event(id, has, summary, start, end) ==
    [id |-> id, has_summary |-> has, summary |-> summary, start |-> start, end |-> end]

\* The instant an RFC 3339 text denotes to the backend.
Instant(s) == s[1].t

Overlapping(cal, lo, hi) ==
    {cal[i] : i \in {j \in 1..Len(cal) : cal[j].start < hi /\ cal[j].end > lo}}

\* The orders orderBy='startTime' may return a set of events in.
RECURSIVE ByStartTime(_)
ByStartTime(S) ==
    IF S = {} THEN {<<>>}
    ELSE UNION {{<<e>> \o rest : rest \in ByStartTime(S \ {e})} :
                   e \in {x \in S : \A y \in S : x.start <= y.start}}

\* service.events().list(timeMin, timeMax, singleEvents, orderBy).execute():
\* an HttpError, or the events that intersect [timeMin, timeMax).
GatewayList(cal, call) ==
    {Raise("HttpError")} \cup
    {Ok(items) : items \in ByStartTime(Overlapping(cal, Instant(call.timeMin),
                                                        Instant(call.timeMax)))}

\* service.events().insert(calendarId, body).execute(): an HttpError, or the
\* event created, with the id the backend gives it.
GatewayInsert(cal, call) ==
    {Raise("HttpError"),
     Ok(<<Event(Len(cal) + 1, TRUE, call.summary, Instant(call.start), Instant(call.end))>>)}

\* The calendar after an insert's response.
Stored(cal, resp) == IF resp.ok THEN cal \o resp.v ELSE cal

\* ------------------------------------------------------ tools: the state
\* calendar: the backend's events. last: the last tool invocation, that is the
\* tool and its input, the gateway calls it made and the gateway's response,
\* the start and summary it parsed, and its result, or that an exception
\* left it.
NoCall == [tool |-> "none", input |-> <<>>, calls |-> <<>>, resp |-> Raise(""),
           start_dt |-> [t |-> 0, tz |-> ""], summary |-> <<>>,
           result |-> <<>>, raised |-> FALSE]

\* except Exception as e: which exceptions the handler takes (variant:
\* except ValueError).
CatchesValueErrorOnly(exc) == exc = "ValueError"
Catches(exc) == TRUE

\* try: ... except Exception as e: return f"{prefix}{e}"
TryExcept(inv, exc, prefix) ==
    IF Catches(exc)
    THEN [inv EXCEPT !.result = prefix \o <<Ws, Word(exc)>>]
    ELSE [inv EXCEPT !.raised = TRUE]

CheckErrorPrefix == Words(<<"An", "error", "occurred", ":">>)
BookErrorPrefix == Words(<<"An", "error", "occurred", "while", "booking", ":">>)

\* check_calendar_availability up to the gateway call: the call to make, or
\* the exception raised before it.
CheckPrepare(time_str) ==
    LET p == fromisoformat(strip(time_str))
    IN  IF ~p.ok THEN Raise(p.exc)
        ELSE Ok([start_dt |-> p.v, summary |-> <<>>,
                 call |-> [op |-> "list", timeMin |-> isoformat(p.v),
                           timeMax |-> isoformat(PlusOneHour(p.v))]])

\* check_calendar_availability from the gateway's response on.
CheckFinish(inv, resp) ==
    IF ~resp.ok THEN TryExcept(inv, resp.exc, CheckErrorPrefix)
    ELSE IF resp.v = <<>>
    THEN [inv EXCEPT !.result =
            Words(<<"The", "1-hour", "slot", "starting", "at">>) \o strftime(inv.start_dt)
            \o Words(<<"is", "free", ".">>)]
    ELSE IF \E i \in 1..Len(resp.v) : ~resp.v[i].has_summary
    THEN TryExcept(inv, "KeyError", CheckErrorPrefix)
    ELSE [inv EXCEPT !.result =
            Words(<<"The", "requested", "time", "slot", "is", "busy", ".",
                    "It", "conflicts", "with", ":">>)
            \o join([i \in 1..Len(resp.v) |-> <<Q1>> \o resp.v[i].summary \o <<Q1>>])
            \o <<Word(".")>>]

\* book_appointment up to the gateway call.
BookPrepare(input_str) ==
    LET args == json_loads(replace(input_str, Q1, Q2))
        kt == <<Word("time")>>
        ks == <<Word("summary")>>
    IN  IF ~args.ok THEN Raise(args.exc)
        ELSE IF kt \notin DOMAIN args.v THEN Raise("KeyError")
        ELSE IF args.v[kt].type # "str" THEN Raise("AttributeError")
        ELSE IF ks \notin DOMAIN args.v THEN Raise("KeyError")
        ELSE IF args.v[ks].type # "str" THEN Raise("AttributeError")
        ELSE LET p == fromisoformat(strip(args.v[kt].s))
             IN  IF ~p.ok THEN Raise(p.exc)
                 ELSE Ok([start_dt |-> p.v, summary |-> strip(args.v[ks].s),
                          call |-> [op |-> "insert",
                                    summary |-> strip(args.v[ks].s),
                                    start |-> isoformat(p.v),
                                    end |-> isoformat(PlusOneHour(p.v))]])

\* book_appointment between its input and the insert call: it parses, and
\* does not look at the calendar (variant: it refuses an occupied slot).
BookIfFree(cal, input_str) ==
    LET b == BookPrepare(input_str)
    IN  IF b.ok /\ Overlapping(cal, Instant(b.v.call.start), Instant(b.v.call.end)) # {}
        THEN Raise("SlotBusy") ELSE b

BookBeforeCall(cal, input_str) == BookPrepare(input_str)

\* book_appointment from the gateway's response on.
BookFinish(inv, resp) ==
    IF ~resp.ok THEN TryExcept(inv, resp.exc, BookErrorPrefix)
    ELSE [inv EXCEPT !.result =
            Words(<<"Success", "!", "The", "appointment">>)
            \o <<Q1>> \o inv.summary \o <<Q1>>
            \o Words(<<"has", "been", "booked", "for">>) \o strftime(inv.start_dt)
            \o Words(<<".", "Event", "link", ":">>) \o <<Word(ToString(resp.v[1].id))>>]

\* ----------------------------------------------------- tools: the inputs
Ticks == 0..MaxTick

\* Date-times with an offset, one padded with blanks, one naive, and a date.
ValidTimeTexts ==
    {<<Iso(t, "+05:30")>> : t \in Ticks}
    \cup {<<Ws, Iso(1, "+05:30"), Ws>>, <<Iso(0, "")>>, <<Date(0)>>}

MalformedTimeTexts ==
    {<<>>, <<Ws>>, <<Word("tomorrow")>>, <<Iso(0, "+05:30"), Ws, Word("pm")>>}

Payload(q, time, summary) ==
    <<Word("{"), q, Word("time"), q, Word(":"), Ws, q>> \o time
    \o <<q, Word(","), Ws, q, Word("summary"), q, Word(":"), Ws, q>> \o summary
    \o <<q, Word("}")>>

Demo == <<Word("Demo")>>

\* Python-style dict literals, and one JSON object with padded fields.
ValidPayloads ==
    {Payload(Q1, <<Iso(t, "+05:30")>>, Demo) : t \in Ticks}
    \cup {Payload(Q2, <<Ws, Iso(1, "+05:30")>>, <<Ws, Word("Demo"), Ws>>)}

\* A payload with a malformed time string.
BadTimePayloads == {Payload(Q1, time, Demo) : time \in MalformedTimeTexts}

\* A payload that is no JSON object, or lacks a field, or has a number for one.
BadShapePayloads ==
    {<<>>,
     <<Word("{"), Q1, Word("time"), Q1, Word(":"), Q1, Iso(0, "+05:30"), Q1>>,
     <<Word("{"), Q1, Word("time"), Q1, Word(":"), Q1, Iso(0, "+05:30"), Q1, Word("}")>>,
     <<Word("{"), Q1, Word("summary"), Q1, Word(":"), Q1, Word("Demo"), Q1, Word("}")>>,
     <<Word("{"), Q2, Word("time"), Q2, Word(":"), Word("10"), Word(","),
       Q2, Word("summary"), Q2, Word(":"), Q2, Word("Demo"), Q2, Word("}")>>,
     <<Word("{"), Word("}")>>}

MalformedPayloads == BadTimePayloads \cup BadShapePayloads

\* A JSON object whose summary holds an apostrophe.
ApostrophePayloads == {Payload(Q2, <<Iso(0, "+05:30")>>, <<Word("Bob"), Q1, Word("s")>>)}

Payloads == ValidPayloads \cup MalformedPayloads \cup ApostrophePayloads

\* The events another client may have put in the calendar.
ForeignEvents ==
    {Event(1, has, IF has THEN <<Word("Sync")>> ELSE <<>>, t, t + d) :
        has \in BOOLEAN, t \in Ticks, d \in {1, TicksPerHour}}

\* ---------------------------------------------------- tools: the actions
\* Any calendar of at most one foreign event; no tool called yet.
ToolsStart ==
    /\ calendar \in {<<>>} \cup {<<e>> : e \in ForeignEvents}
    /\ last = NoCall

\* The engine calls the CheckCalendarAvailability tool.
CheckCalendarAvailability(time_str) ==
    LET inv == [NoCall EXCEPT !.tool = "check", !.input = time_str]
        pre == CheckPrepare(time_str)
    IN  /\ IF ~pre.ok
           THEN last' = TryExcept(inv, pre.exc, CheckErrorPrefix)
           ELSE \E resp \in GatewayList(calendar, pre.v.call) :
                   last' = CheckFinish([inv EXCEPT !.calls = <<pre.v.call>>,
                                                   !.start_dt = pre.v.start_dt,
                                                   !.resp = resp], resp)
        /\ UNCHANGED calendar
        /\ UNCHANGED chatVars

\* The engine calls the BookAppointment tool.
BookAppointment(input_str) ==
    LET inv == [NoCall EXCEPT !.tool = "book", !.input = input_str]
        pre == BookBeforeCall(calendar, input_str)
    IN  /\ Len(calendar) < MaxEvents
        /\ IF ~pre.ok
           THEN /\ last' = TryExcept(inv, pre.exc, BookErrorPrefix)
                /\ calendar' = calendar
           ELSE \E resp \in GatewayInsert(calendar, pre.v.call) :
                   /\ last' = BookFinish([inv EXCEPT !.calls = <<pre.v.call>>,
                                                     !.start_dt = pre.v.start_dt,
                                                     !.summary = pre.v.summary,
                                                     !.resp = resp], resp)
                   /\ calendar' = Stored(calendar, resp)
        /\ UNCHANGED chatVars

NextTools ==
    \/ \E time_str \in ValidTimeTexts \cup MalformedTimeTexts :
          CheckCalendarAvailability(time_str)
    \/ \E input_str \in Payloads : BookAppointment(input_str)

\* ------------------------------------------------------- chat: the model
Sessions == {"default_session", "s2"}
Messages == {"book 3pm"}
Outputs == {"Booked."}
Requests == 1..MaxRequests

\* The handler's positions: between two of them lies one statement. A frame
\* keeps the handler's locals (session id, message, memory, response) and, for
\* the properties, what the engine was handed (ctx), how many requests had
\* returned by then (nbefore) and how many when the request arrived (arrived).
ActivePcs == {"lookup", "create", "get", "invoke", "add_user", "add_ai", "return"}

NoFrame == [pc |-> "none", sid |-> "default_session", msg |-> "book 3pm",
            memory |-> 0, ctx |-> <<>>, arrived |-> 0, nbefore |-> 0, out |-> ""]

HumanMessage(text, r) == [role |-> "user", text |-> text, req |-> r]
AIMessage(text, r) == [role |-> "assistant", text |-> text, req |-> r]

\* chat_with_agent is a coroutine on uvicorn's single event loop and holds
\* no await: once begun, the loop runs it to its return (or raise) before
\* any other handler's statement (variant: handlers on a thread pool, as for
\* a plain def).
RunnableThreaded(r) == TRUE
Runnable(r) == \A q \in Requests : q # r => req[q].pc \notin ActivePcs

\* The key the handler looks the session up by (variant: one key for all).
SessionKeyShared(r) == "default_session"
SessionKey(r) == req[r].sid

\* The process after import: `today` is computed, the table is empty.
ChatStart ==
    /\ clock = 0
    /\ today = clock
    /\ chat_histories = [s \in Sessions |-> 0]
    /\ heap = <<>>
    /\ req = [r \in Requests |-> NoFrame]
    /\ prompt = [today |-> today, now |-> clock]
    /\ completed = <<>>

\* The date advances while the process runs.
Tick ==
    /\ clock < MaxDay
    /\ clock' = clock + 1
    /\ UNCHANGED <<today, chat_histories, heap, req, completed, prompt, calendar, last>>

\* A client posts {message, session_id}; the request waits for the loop.
Receive(r, s, m) ==
    /\ req[r].pc = "none"
    /\ \A q \in Requests : q < r => req[q].pc # "none"
    /\ req' = [req EXCEPT ![r] = [NoFrame EXCEPT !.pc = "pending", !.sid = s, !.msg = m,
                                                !.arrived = Len(completed)]]
    /\ UNCHANGED <<clock, today, chat_histories, heap, completed, prompt, calendar, last>>

\* The loop starts the handler: session_id = request.session_id
Begin(r) ==
    /\ req[r].pc = "pending"
    /\ Runnable(r)
    /\ req' = [req EXCEPT ![r].pc = "lookup"]
    /\ UNCHANGED <<clock, today, chat_histories, heap, completed, prompt, calendar, last>>

\* if session_id not in chat_histories:
CheckSession(r) ==
    /\ req[r].pc = "lookup"
    /\ Runnable(r)
    /\ req' = [req EXCEPT ![r].pc =
                 IF chat_histories[SessionKey(r)] = 0 THEN "create" ELSE "get"]
    /\ UNCHANGED <<clock, today, chat_histories, heap, completed, prompt, calendar, last>>

\*     chat_histories[session_id] = ConversationBufferMemory(...)
CreateMemory(r) ==
    /\ req[r].pc = "create"
    /\ Runnable(r)
    /\ heap' = Append(heap, <<>>)
    /\ chat_histories' = [chat_histories EXCEPT ![SessionKey(r)] = Len(heap) + 1]
    /\ req' = [req EXCEPT ![r].pc = "get"]
    /\ UNCHANGED <<clock, today, completed, prompt, calendar, last>>

\* memory = chat_histories[session_id]
GetMemory(r) ==
    /\ req[r].pc = "get"
    /\ Runnable(r)
    /\ req' = [req EXCEPT ![r].pc = "invoke",
                          ![r].memory = chat_histories[SessionKey(r)]]
    /\ UNCHANGED <<clock, today, chat_histories, heap, completed, prompt, calendar, last>>

\* The date the prompt carries: prompt.partial(today=today).
PromptDate == today

\* The engine fills the template for this request; `now` keeps the date at
\* which it does so.
Render(r) == [today |-> PromptDate, now |-> clock]

\* response = agent_executor.invoke({input, chat_history}) returns.
InvokeReturn(r, o) ==
    /\ req[r].pc = "invoke"
    /\ Runnable(r)
    /\ req' = [req EXCEPT ![r].pc = "add_user",
                          ![r].ctx = heap[req[r].memory],
                          ![r].nbefore = Len(completed),
                          ![r].out = o]
    /\ prompt' = Render(r)
    /\ UNCHANGED <<clock, today, chat_histories, heap, completed, calendar, last>>

\* agent_executor.invoke raises: nothing catches it, the handler ends
\* (variant: the user turn is appended before the engine is invoked).
InvokeRaiseAfterUserTurn(r) ==
    /\ req[r].pc = "invoke"
    /\ Runnable(r)
    /\ heap' = [heap EXCEPT ![req[r].memory] = Append(@, HumanMessage(req[r].msg, r))]
    /\ req' = [req EXCEPT ![r].pc = "failed",
                          ![r].ctx = heap[req[r].memory],
                          ![r].nbefore = Len(completed)]
    /\ prompt' = Render(r)
    /\ UNCHANGED <<clock, today, chat_histories, completed, calendar, last>>

InvokeRaise(r) ==
    /\ req[r].pc = "invoke"
    /\ Runnable(r)
    /\ req' = [req EXCEPT ![r].pc = "failed",
                          ![r].ctx = heap[req[r].memory],
                          ![r].nbefore = Len(completed)]
    /\ prompt' = Render(r)
    /\ UNCHANGED <<clock, today, chat_histories, heap, completed, calendar, last>>

\* memory.chat_memory.add_user_message(request.message)
AddUser(r) ==
    /\ req[r].pc = "add_user"
    /\ Runnable(r)
    /\ heap' = [heap EXCEPT ![req[r].memory] = Append(@, HumanMessage(req[r].msg, r))]
    /\ req' = [req EXCEPT ![r].pc = "add_ai"]
    /\ UNCHANGED <<clock, today, chat_histories, completed, prompt, calendar, last>>

\* memory.chat_memory.add_ai_message(response['output']) (variant: the turn
\* is put at the front).
AddAIFirst(r) ==
    /\ req[r].pc = "add_ai"
    /\ Runnable(r)
    /\ heap' = [heap EXCEPT ![req[r].memory] = <<AIMessage(req[r].out, r)>> \o @]
    /\ req' = [req EXCEPT ![r].pc = "return"]
    /\ UNCHANGED <<clock, today, chat_histories, completed, prompt, calendar, last>>

AddAI(r) ==
    /\ req[r].pc = "add_ai"
    /\ Runnable(r)
    /\ heap' = [heap EXCEPT ![req[r].memory] = Append(@, AIMessage(req[r].out, r))]
    /\ req' = [req EXCEPT ![r].pc = "return"]
    /\ UNCHANGED <<clock, today, chat_histories, completed, prompt, calendar, last>>

\* return {"response": response['output']}
Return(r) ==
    /\ req[r].pc = "return"
    /\ Runnable(r)
    /\ req' = [req EXCEPT ![r].pc = "done"]
    /\ completed' = Append(completed, r)
    /\ UNCHANGED <<clock, today, chat_histories, heap, prompt, calendar, last>>

HandlerStep(r) ==
    \/ Begin(r)
    \/ CheckSession(r)
    \/ CreateMemory(r)
    \/ GetMemory(r)
    \/ \E o \in Outputs : InvokeReturn(r, o)
    \/ InvokeRaise(r)
    \/ AddUser(r)
    \/ AddAI(r)
    \/ Return(r)

NextChat ==
    \/ Tick
    \/ \E r \in Requests, s \in Sessions, m \in Messages : Receive(r, s, m)
    \/ \E r \in Requests : HandlerStep(r)

\* The chat endpoint alone: no tool is called.
InitChat == ChatStart /\ calendar = <<>> /\ last = NoCall

SpecChat == InitChat /\ [][NextChat]_vars

\* The tools alone, called in any order with any input, from any calendar.
InitTools == ToolsStart /\ ChatStart

SpecTools == InitTools /\ [][NextTools]_vars

\* --------------------------------------------------- chat: the properties

\* The history the table holds for session s.
Hist(s) == IF chat_histories[s] = 0 THEN <<>> ELSE heap[chat_histories[s]]

\* The requests whose engine invocation has begun and ended.
Invoked == {r \in Requests : req[r].pc \in {"add_user", "add_ai", "return", "done", "failed"}}

TurnsOf(h) == {h[i] : i \in 1..Len(h)}

AllTurns == UNION {TurnsOf(heap[m]) : m \in DOMAIN heap}

\* The two turns of the first n returned requests that belong to session s,
\* in the order the requests returned.
RECURSIVE ExpectedPrefix(_, _)
ExpectedPrefix(s, n) ==
    IF n = 0 THEN <<>>
    ELSE LET r == completed[n]
         IN  ExpectedPrefix(s, n - 1) \o
             (IF req[r].sid = s
              THEN <<HumanMessage(req[r].msg, r), AIMessage(req[r].out, r)>>
              ELSE <<>>)

\* What the request now between its two appends, or before its return, has
\* appended so far.
Partial(s) ==
    IF \E r \in Requests : req[r].sid = s /\ req[r].pc = "add_ai"
    THEN LET r == CHOOSE q \in Requests : req[q].sid = s /\ req[q].pc = "add_ai"
         IN  <<HumanMessage(req[r].msg, r)>>
    ELSE IF \E r \in Requests : req[r].sid = s /\ req[r].pc = "return"
    THEN LET r == CHOOSE q \in Requests : req[q].sid = s /\ req[q].pc = "return"
         IN  <<HumanMessage(req[r].msg, r), AIMessage(req[r].out, r)>>
    ELSE <<>>

IsPrefix(a, b) == Len(a) <= Len(b) /\ SubSeq(b, 1, Len(a)) = a

\* C1 (session isolation): the history of session s holds only turns that
\* requests with session id s produced, and the chat history handed to the
\* engine for a request with session id s holds only turns of other, earlier
\* requests with the same session id s.
C1_SessionIsolation ==
    /\ \A s \in Sessions : \A t \in TurnsOf(Hist(s)) : req[t.req].sid = s
    /\ \A r \in Invoked : \A t \in TurnsOf(req[r].ctx) :
          /\ req[t.req].sid = req[r].sid
          /\ t.req # r
          /\ \E i \in 1..req[r].nbefore : completed[i] = t.req

\* Two sessions have each completed a request, and then a further request on
\* the first session was handed that session's two turns.
C1_Witness ==
    \E r1, r2, r3 \in Requests :
        /\ Len(completed) = 3
        /\ completed = <<r1, r2, r3>>
        /\ req[r1].sid # req[r2].sid
        /\ req[r3].sid = req[r1].sid
        /\ Len(req[r3].ctx) = 2
        /\ Len(Hist(req[r2].sid)) = 2

\* C2 (append-only, ordered history): in every state the history of session s
\* is exactly the (user, message), (assistant, response) pairs of the returned
\* requests on s in the order they returned, followed by what the running
\* request has appended so far; the engine's context for a request on s is
\* exactly the turns of the requests on s that had returned before it; and no
\* step changes or removes a turn a history already holds.
C2_AppendOnlyOrdered ==
    /\ [](/\ \A s \in Sessions :
               Hist(s) = ExpectedPrefix(s, Len(completed)) \o Partial(s)
          /\ \A r \in Invoked :
               req[r].ctx = ExpectedPrefix(req[r].sid, req[r].nbefore))
    /\ [][\A m \in DOMAIN heap :
              m \in DOMAIN heap' /\ IsPrefix(heap[m], heap'[m])]_vars

\* Three requests have returned on one session: the third was handed the four
\* turns of the first two.
C2_Witness ==
    \E s \in Sessions :
        /\ Len(completed) = 3
        /\ \A i \in 1..3 : req[completed[i]].sid = s
        /\ Len(req[completed[3]].ctx) = 4
        /\ Len(Hist(s)) = 6

\* C8 (the prompt's date is the current date): the date in the prompt
\* rendered for a request is the date at the time that request is handled.
C8_PromptDateIsCurrent == prompt.today = prompt.now

\* The turns of every history come in adjacent (user, assistant) pairs of one
\* request each; only the request now between its two appends has a user turn
\* with nothing after it.
Paired(h) ==
    \A i \in 1..Len(h) :
        IF h[i].role = "user"
        THEN IF i < Len(h)
             THEN h[i + 1] = AIMessage(req[h[i].req].out, h[i].req)
             ELSE req[h[i].req].pc = "add_ai"
        ELSE i > 1 /\ h[i - 1] = HumanMessage(req[h[i].req].msg, h[i].req)

\* Every append a request has made is in the history its session maps to.
NoLostAppend ==
    \A r \in Requests :
        /\ req[r].pc \in {"add_ai", "return", "done"}
              => HumanMessage(req[r].msg, r) \in TurnsOf(Hist(req[r].sid))
        /\ req[r].pc \in {"return", "done"}
              => AIMessage(req[r].out, r) \in TurnsOf(Hist(req[r].sid))

Raced == ~((\A m \in DOMAIN heap : Paired(heap[m])) /\ NoLostAppend)

ReturnedTogether(r1, r2) ==
    /\ r1 # r2
    /\ req[r1].sid = req[r2].sid
    /\ req[r1].pc = "done" /\ req[r2].pc = "done"
    /\ \E i \in 1..Len(completed) : completed[i] = r1 /\ req[r2].arrived < i

BeforeAppends == {"pending", "lookup", "create", "get", "invoke"}

\* C10 (a raising engine leaves no trace): a request whose engine invocation
\* raised never returns, and none of its turns is in any history or in any
\* context handed to the engine; no step of a handler up to and including the
\* raising invocation changes a turn sequence or an entry of the table, except
\* that a session id not yet in the table comes to map to a new, empty history.
C10_FailureLeavesNoTrace ==
    /\ [](\A r \in Requests :
             req[r].pc \in BeforeAppends \cup {"failed"} =>
                /\ \A t \in AllTurns : t.req # r
                /\ \A q \in Requests : \A t \in TurnsOf(req[q].ctx) : t.req # r
                /\ \A i \in 1..Len(completed) : completed[i] # r)
    /\ [][\A r \in Requests :
              (req[r].pc \in BeforeAppends /\ req'[r].pc \in BeforeAppends \cup {"failed"}
                  /\ req'[r] # req[r]) =>
                  /\ \A m \in DOMAIN heap : m \in DOMAIN heap' /\ heap'[m] = heap[m]
                  /\ \A m \in DOMAIN heap' \ DOMAIN heap : heap'[m] = <<>>
                  /\ \A s \in Sessions :
                        \/ chat_histories'[s] = chat_histories[s]
                        \/ /\ chat_histories[s] = 0
                           /\ s = req[r].sid
                           /\ chat_histories'[s] \notin DOMAIN heap]_vars

\* The first request on a session raised, leaving the session's history
\* empty; a later request on that session was handed an empty context and
\* returned.
C10_Witness ==
    \E r1, r2 \in Requests :
        /\ req[r1].pc = "failed"
        /\ req[r2].pc = "done"
        /\ req[r2].sid = req[r1].sid
        /\ req[r1].nbefore = 0
        /\ req[r2].ctx = <<>>
        /\ Len(Hist(req[r1].sid)) = 2

\* -------------------------------------------------- tools: the properties
Contains(text, w) == \E i \in 1..Len(text) : text[i] = Word(w)

ContainsSeq(text, sub) ==
    \E i \in 1..(Len(text) - Len(sub) + 1) : SubSeq(text, i, i + Len(sub) - 1) = sub

\* The invocation reached the gateway, and the gateway answered.
GatewayAnswered(inv) == inv.calls # <<>> /\ inv.resp.ok

GatewayFailed(inv) == inv.calls # <<>> /\ ~inv.resp.ok

Quoted(summary) == <<Q1>> \o summary \o <<Q1>>

SummaryOf(e) == IF e.has_summary THEN e.summary ELSE <<>>

\* C3 (the tools never raise): no tool invocation ends in an exception, and
\* an invocation with a malformed time string, a malformed payload, a payload
\* lacking 'time' or 'summary', or a gateway error returns a text that holds
\* the word "error".
C3_ToolsNeverRaise ==
    /\ ~last.raised
    /\ (last.tool = "check" /\ last.input \in MalformedTimeTexts)
          => Contains(last.result, "error")
    /\ (last.tool = "book" /\ last.input \in MalformedPayloads)
          => Contains(last.result, "error")
    /\ GatewayFailed(last) => Contains(last.result, "error")

\* book_appointment was given a payload without 'summary' and returned its
\* error text.
C3_Witness ==
    /\ last.tool = "book"
    /\ last.input = <<Word("{"), Q1, Word("time"), Q1, Word(":"), Q1,
                      Iso(0, "+05:30"), Q1, Word("}")>>
    /\ ~last.raised
    /\ Contains(last.result, "error")

\* C4 (free or busy): when the gateway answers a valid availability check
\* with no event the result holds "free"; when it answers with events the
\* result holds "busy" and the events' quoted summaries, comma-joined, in the
\* order the gateway returned them.
C4_FreeOrBusyWithSummaries ==
    (last.tool = "check" /\ GatewayAnswered(last)) =>
        IF last.resp.v = <<>>
        THEN Contains(last.result, "free")
        ELSE /\ Contains(last.result, "busy")
             /\ ContainsSeq(last.result,
                    join([i \in 1..Len(last.resp.v) |-> Quoted(SummaryOf(last.resp.v[i]))]))

\* C5 (round trip): a check that immediately follows a successful booking of
\* start t and summary s, for the same t and answered by the gateway, reports
\* "busy" and lists s.
C5_BookThenCheckIsBusy ==
    [][(/\ last.tool = "book" /\ GatewayAnswered(last)
        /\ last'.tool = "check" /\ GatewayAnswered(last')
        /\ last'.start_dt = last.start_dt)
       => /\ Contains(last'.result, "busy")
          /\ ContainsSeq(last'.result, Quoted(last.summary))]_vars

\* C6 (booking is neither guarded nor idempotent): every book_appointment
\* invocation with a valid payload makes exactly one gateway call, the insert,
\* whatever the calendar holds; when the gateway accepts it the calendar gains
\* one event with a new id for [t, t + 1h) and the result reports success, also
\* when the slot is occupied; and a second accepted invocation with the same
\* input leaves two distinct events of the same summary and slot.
C6_BookingUnguardedNotIdempotent ==
    [][(last'.tool = "book" /\ last'.input \in ValidPayloads) =>
         /\ Len(last'.calls) = 1
         /\ last'.calls[1].op = "insert"
         /\ ~last'.resp.ok => calendar' = calendar
         /\ last'.resp.ok =>
              /\ Len(calendar') = Len(calendar) + 1
              /\ SubSeq(calendar', 1, Len(calendar)) = calendar
              /\ LET e == calendar'[Len(calendar')]
                 IN  /\ \A i \in 1..Len(calendar) : calendar[i].id # e.id
                     /\ e.summary = last'.summary
                     /\ e.start = last'.start_dt.t
                     /\ e.end = last'.start_dt.t + TicksPerHour
                     /\ (last.tool = "book" /\ GatewayAnswered(last)
                            /\ last.input = last'.input)
                          => LET d == calendar'[Len(calendar') - 1]
                             IN  /\ d.id # e.id
                                 /\ d.summary = e.summary
                                 /\ d.start = e.start /\ d.end = e.end
              /\ Contains(last'.result, "Success")]_vars

\* The second of two accepted bookings with one input: the calendar's last
\* two events are distinct and have the same summary and slot.
C6_Witness ==
    /\ last.tool = "book" /\ GatewayAnswered(last)
    /\ last.input \in ValidPayloads
    /\ Len(calendar) >= 2
    /\ LET e == calendar[Len(calendar)]
           d == calendar[Len(calendar) - 1]
       IN  /\ d.id # e.id
           /\ d.summary = e.summary /\ e.summary = Demo
           /\ d.start = e.start /\ d.end = e.end

\* C7 (fixed 1-hour window): a tool invocation makes at most one gateway
\* call, and one when its time input is valid; the list call of a check for
\* start t has timeMin t and timeMax t + 1 hour, and the insert call of a
\* booking for start t has start t and end t + 1 hour, offset kept.
C7_OneHourWindow ==
    /\ Len(last.calls) <= 1
    /\ (last.tool = "check" /\ last.input \in ValidTimeTexts) => Len(last.calls) = 1
    /\ (last.tool = "book" /\ last.input \in ValidPayloads) => Len(last.calls) = 1
    /\ \A i \in 1..Len(last.calls) :
          LET c == last.calls[i]
              t == fromisoformat(strip(last.input))
          IN  IF last.tool = "check"
              THEN /\ c.op = "list"
                   /\ t.ok
                   /\ fromisoformat(c.timeMin) = t
                   /\ fromisoformat(c.timeMax).v.tz = t.v.tz
                   /\ Instant(c.timeMax) = t.v.t + TicksPerHour
              ELSE /\ c.op = "insert"
                   /\ \A k \in Ticks :
                        last.input = Payload(Q1, <<Iso(k, "+05:30")>>, Demo)
                          => (c.start = <<Iso(k, "+05:30")>>
                              /\ c.end = <<Iso(k + TicksPerHour, "+05:30")>>)
                   /\ Instant(c.end) = Instant(c.start) + TicksPerHour
                   /\ c.end[1].tz = c.start[1].tz
                   /\ last.resp.ok =>
                         last.resp.v[1].end = last.resp.v[1].start + TicksPerHour

\* A booking for tick 1, given with blanks around the time, made the insert
\* call for [1, 1 + 1h).
C7_Witness ==
    /\ last.tool = "book"
    /\ last.input = Payload(Q2, <<Ws, Iso(1, "+05:30")>>, <<Ws, Word("Demo"), Ws>>)
    /\ GatewayAnswered(last)
    /\ last.calls[1].start = <<Iso(1, "+05:30")>>
    /\ last.calls[1].end = <<Iso(1 + TicksPerHour, "+05:30")>>

====
